---- MODULE Spec2Model ----
(***************************************************************************)
(* A model of the inference services of LLM-RAG-Architecture:              *)
(*   - reranker/main.py        cross-encoder reranking service (FastAPI)   *)
(*   - src/embedding/main.py   bi-encoder embedding service (FastAPI)      *)
(*   - reranker/reranker-qwen3.py  causal-LM reranker script (build_inputs)*)
(* A service process is one of the two FastAPI applications.  Its state is *)
(* the module globals (model, tokenizer, model_id), the position of the    *)
(* lifespan coroutine, the task holding the asyncio event loop, and one    *)
(* frame per request handler in flight.                                    *)
(***************************************************************************)
EXTENDS Integers, Sequences, FiniteSets

\* ------------------------------------------------------------------ bounds
MaxRequests == 2      \* request slots (handler tasks in flight)
MaxDocs == 2          \* longest documents / texts list of a request
HiddenSize == 2       \* hidden size D of the stub encoder
MaxSeqLen == 2        \* longest row handed to mean_pooling on its own
MaxPad == 1           \* padding positions appended to such a row
MaxPairs == 2         \* longest queries / documents list given to build_inputs

\* ------------------------------------------------------- program constants
max_length == 512
MAX_LENGTH == 8192

\* --------------------------------------------------------------- helpers
Max2(a, b) == IF a >= b THEN a ELSE b

Min2(a, b) == IF a <= b THEN a ELSE b

RECURSIVE SumSeq(_)
SumSeq(s) == IF s = <<>> THEN 0 ELSE Head(s) + SumSeq(Tail(s))

RECURSIVE MaxSeq(_)
MaxSeq(s) == IF s = <<>> THEN 0 ELSE Max2(Head(s), MaxSeq(Tail(s)))

\* All sequences over S of length 0..n.
SeqsUpTo(S, n) == UNION {[1..k -> S] : k \in 0..n}

\* A text is the sequence of word-piece ids the tokenizer produces for it.
Texts == {<<1>>, <<2, 1>>}

Queries == {<<1>>, <<2>>}

\* BERT's special tokens.
Special == [cls |-> 101, sep |-> 102, pad |-> 0]

Requests == 1..MaxRequests

NoTask == 0

LifespanTask == -1

\* ------------------------------------------------------------ the globals
VARIABLES service, model_id, model, tokenizer, lifespan_pc, loop, req, health, bi, mp

svcVars == <<service, model_id, model, tokenizer, lifespan_pc, loop, req, health>>

vars == <<service, model_id, model, tokenizer, lifespan_pc, loop, req, health, bi, mp>>

Services == {"reranker", "embedder"}

ModelId(s) == IF s = "reranker" THEN "cross-encoder/ms-marco-MiniLM-L6-v2" ELSE "BAAI/bge-small-en-v1.5"

\* model = None, tokenizer = None
NoneModel == [loaded |-> FALSE, id |-> "", quantized |-> FALSE, eval |-> FALSE]

NoneTokenizer == [loaded |-> FALSE, id |-> "", onEmpty |-> "raises"]

\* What the tokenizer does with an empty batch is not defined by its contract:
\* it raises (IndexError) or returns empty tensors, whichever the build does.
OnEmpty == {"raises", "empty"}

\* The statements of lifespan() before its yield, in source order.
LoadOps(s) == IF s = "reranker" THEN <<"model", "quantize", "eval", "tokenizer">> ELSE <<"tokenizer", "model", "quantize", "eval">>

\* --------------------------------------------------------- request frames
NoInput == [query |-> <<>>, documents |-> <<>>, texts |-> <<>>]

NoFeatures == [input_ids |-> <<>>, attention_mask |-> <<>>]

NoTensor == [shape |-> <<>>, data |-> <<>>]

NoValue == [kind |-> "none", v |-> <<>>]

NoResp == [kind |-> "none", exc |-> "", scores |-> <<>>, embeddings |-> <<>>, dimensions |-> 0]

IdleFrame == [st |-> "idle", route |-> "", input |-> NoInput, queries |-> <<>>, features |-> NoFeatures, out |-> NoTensor, scores |-> NoValue, resp |-> NoResp, tokCalls |-> 0, fwdCalls |-> 0, phase |-> ""]

Error(e) == [kind |-> "error", exc |-> e, scores |-> <<>>, embeddings |-> <<>>, dimensions |-> 0]

\* The stages of a handler between its first statement and its return.
InHandler == {"started", "tokenized", "forward", "scored", "done"}

\* ------------------------------------------------------------- tokenizer
Truncate(ids, n) == IF Len(ids) > n THEN SubSeq(ids, 1, n) ELSE ids

\* truncation=True on a pair (longest_first), for a budget of n content tokens:
\* the lengths <<query, document>> that are kept.  A pair that fits is kept
\* whole; otherwise the longer sequence is cut down to what the shorter leaves
\* of the budget, and when the shorter is itself over half the budget both are
\* cut, the shorter to floor(n / 2) and the longer to ceil(n / 2).
PairKeep(a, b, n) == LET n1 == Min2(a, b)
                         n2 == IF n1 > n THEN n1 ELSE Max2(n1, n - n1)
                         over == n1 + n2 > n
                         m1 == IF over THEN n \div 2 ELSE n1
                         m2 == IF over THEN (n \div 2) + (n % 2) ELSE n2
                     IN  IF a + b <= n THEN <<a, b>> ELSE IF a > b THEN <<m2, m1>> ELSE <<m1, m2>>

\* Pair encoding of the cross-encoder's tokenizer: the content is truncated to
\* max_length less the three special tokens, then framed as
\* [CLS] query [SEP] doc [SEP].
EncodePair(q, d) == LET keep == PairKeep(Len(q), Len(d), max_length - 3)
                    IN  <<Special.cls>> \o Truncate(q, keep[1]) \o <<Special.sep>> \o Truncate(d, keep[2]) \o <<Special.sep>>

\* Single-text encoding of the embedder's tokenizer: the content is truncated
\* to max_length less the two special tokens, then framed as [CLS] text [SEP].
EncodeText(t) == <<Special.cls>> \o Truncate(t, max_length - 2) \o <<Special.sep>>

PadRight(ids, n) == ids \o [i \in 1..(n - Len(ids)) |-> Special.pad]

MaskRight(ids, n) == [i \in 1..n |-> IF i <= Len(ids) THEN 1 ELSE 0]

\* padding=True: every row is padded to the longest row of the batch.
Batch(rows) == LET n == MaxSeq([i \in 1..Len(rows) |-> Len(rows[i])])
               IN  [input_ids |-> [i \in 1..Len(rows) |-> PadRight(rows[i], n)], attention_mask |-> [i \in 1..Len(rows) |-> MaskRight(rows[i], n)]]

\* tokenizer(queries, documents, padding=True, truncation=True, ...)
TokenizePairs(queries, documents) == Batch([i \in 1..Min2(Len(queries), Len(documents)) |-> EncodePair(queries[i], documents[i])])

\* tokenizer(texts, padding=True, truncation=True, ...)
TokenizeTexts(texts) == Batch([i \in 1..Len(texts) |-> EncodeText(texts[i])])

\* -------------------------------------------------- cross-encoder scoring
\* The classification head of the stub model: one logit per row, computed from
\* the positions the attention mask keeps.
RowLogit(ids, mask) == (SumSeq([i \in 1..Len(ids) |-> ids[i] * mask[i] * i]) % 5) - 2

\* model(**features).logits: shape [N, 1].
ClassifierLogits(f) == [shape |-> <<Len(f.input_ids), 1>>, data |-> [i \in 1..Len(f.input_ids) |-> <<RowLogit(f.input_ids[i], f.attention_mask[i])>>]]

\* torch.sigmoid, in thousandths, on the logits the stub produces.
Sigmoid(x) == CASE x <= -2 -> 119 [] x = -1 -> 269 [] x = 0 -> 500 [] x = 1 -> 731 [] OTHER -> 881

SigmoidT(t) == [shape |-> t.shape, data |-> [i \in 1..Len(t.data) |-> [j \in 1..Len(t.data[i]) |-> Sigmoid(t.data[i][j])]]]

\* t.squeeze(-1): drops the last dimension when it is 1 (a rank-1 tensor of one
\* element becomes a 0-d tensor, whose data is kept as that one element).
SqueezeLast(t) == IF Len(t.shape) = 0 \/ t.shape[Len(t.shape)] # 1 THEN t ELSE [shape |-> SubSeq(t.shape, 1, Len(t.shape) - 1), data |-> IF Len(t.shape) = 1 THEN t.data ELSE [i \in 1..Len(t.data) |-> t.data[i][1]]]

\* t.tolist(): a Python float for a 0-d tensor, a list for rank 1, a list of
\* lists for rank 2.
ToList(t) == CASE Len(t.shape) = 0 -> [kind |-> "float", v |-> t.data] [] Len(t.shape) = 1 -> [kind |-> "list", v |-> t.data] [] OTHER -> [kind |-> "nested", v |-> t.data]

\* A rerank that forgets the squeeze: the [N, 1] tensor goes to tolist as it is.
ScoresOfNoSqueeze(logits) == ToList(SigmoidT(logits))

\* rerank, lines 79-81.
ScoresOf(logits) == ToList(SqueezeLast(SigmoidT(logits)))

\* rerank, lines 84-85: if isinstance(scores, float): scores = [scores]
WrapSingle(s) == IF s.kind = "float" THEN [kind |-> "list", v |-> s.v] ELSE s

\* RerankResponse(scores=scores): pydantic accepts a list of floats only.
RerankResponse(s) == IF s.kind = "list" THEN [kind |-> "ok", exc |-> "", scores |-> s.v, embeddings |-> <<>>, dimensions |-> 0] ELSE Error("ValidationError")

\* ------------------------------------------------------ exact arithmetic
\* Tensor elements of the embedding path are rationals [num, den], den > 0, in
\* lowest terms: the floating-point values up to rounding.
RECURSIVE Gcd(_, _)
Gcd(a, b) == IF b = 0 THEN a ELSE Gcd(b, a % b)

Abs(x) == IF x < 0 THEN -x ELSE x

Frac(n, d) == LET g == Gcd(Abs(n), Abs(d))
                  sg == IF d < 0 THEN -1 ELSE 1
              IN  [num |-> sg * (n \div g), den |-> sg * (d \div g)]

FracInt(n) == [num |-> n, den |-> 1]

FracAdd(a, b) == Frac(a.num * b.den + b.num * a.den, a.den * b.den)

FracMul(a, b) == Frac(a.num * b.num, a.den * b.den)

FracDiv(a, b) == Frac(a.num * b.den, a.den * b.num)

\* a < b, comparing the integer parts first (the products stay small).
FracLess(a, b) == LET fa == a.num \div a.den
                      fb == b.num \div b.den
                  IN  IF fa # fb THEN fa < fb ELSE (a.num % a.den) * b.den < (b.num % b.den) * a.den

RECURSIVE FracSum(_)
FracSum(s) == IF s = <<>> THEN FracInt(0) ELSE FracAdd(Head(s), FracSum(Tail(s)))

\* torch.clamp(x, min=m)
Clamp(x, m) == IF FracLess(x, m) THEN m ELSE x

\* ----------------------------------------------------- bi-encoder embedder
\* The hidden state the stub encoder gives a token: a vector of HiddenSize
\* small integers.  A padding position gets a hidden state like any other.
Hidden(id) == [k \in 1..HiddenSize |-> FracInt(((id * k + k) % 4) - 1)]

\* model(**encoded_input): a tuple whose first element is the last hidden
\* state, shape [M, L, D].
EncoderOutput(f) == LET M == Len(f.input_ids)
                        L == IF M = 0 THEN 0 ELSE Len(f.input_ids[1])
                    IN  <<[shape |-> <<M, L, HiddenSize>>, data |-> [b \in 1..M |-> [p \in 1..L |-> Hidden(f.input_ids[b][p])]]]>>

\* mean_pooling, line 17: the clamp's floor, 1e-9.
PoolEps == [num |-> 1, den |-> 1000000000]

\* A pooling that masks the sum but divides by the padded length of the row.
mean_pooling_by_length(model_output, attention_mask) ==
    LET token_embeddings == model_output[1]
        B == token_embeddings.shape[1]
        L == token_embeddings.shape[2]
        D == token_embeddings.shape[3]
        summed(b, k) == FracSum([p \in 1..L |-> FracMul(token_embeddings.data[b][p][k], FracInt(attention_mask[b][p]))])
    IN  [shape |-> <<B, D>>, data |-> [b \in 1..B |-> [k \in 1..D |-> FracDiv(summed(b, k), Clamp(FracInt(L), PoolEps))]]]

\* mean_pooling(model_output, attention_mask), lines 13-17.
mean_pooling(model_output, attention_mask) ==
    LET token_embeddings == model_output[1]
        B == token_embeddings.shape[1]
        L == token_embeddings.shape[2]
        D == token_embeddings.shape[3]
        input_mask_expanded == [b \in 1..B |-> [p \in 1..L |-> [k \in 1..D |-> FracInt(attention_mask[b][p])]]]
        summed(b, k) == FracSum([p \in 1..L |-> FracMul(token_embeddings.data[b][p][k], input_mask_expanded[b][p][k])])
        count(b, k) == FracSum([p \in 1..L |-> input_mask_expanded[b][p][k]])
    IN  [shape |-> <<B, D>>, data |-> [b \in 1..B |-> [k \in 1..D |-> FracDiv(summed(b, k), Clamp(count(b, k), PoolEps))]]]

\* F.normalize(x, p=2, dim=1): each row divided by max(its 2-norm, 1e-12).  A
\* component x / norm is recorded as sign(x) * x^2 / norm^2, which determines
\* it and is rational; a row of norm 0 is all zeros and stays so.
NormalizeRow(row) == LET sq == FracSum([k \in 1..Len(row) |-> FracMul(row[k], row[k])])
                     IN  [k \in 1..Len(row) |-> IF sq.num = 0 THEN FracInt(0) ELSE FracDiv(FracMul(FracInt(IF row[k].num < 0 THEN -1 ELSE 1), FracMul(row[k], row[k])), sq)]

Normalize(t) == [shape |-> t.shape, data |-> [b \in 1..Len(t.data) |-> NormalizeRow(t.data[b])]]

\* embed, lines 80-83.
EmbedResponse(embeddings) == LET embeddings_list == embeddings.data
                                 dimensions == IF embeddings_list # <<>> THEN Len(embeddings_list[1]) ELSE 0
                             IN  [kind |-> "ok", exc |-> "", scores |-> <<>>, embeddings |-> embeddings_list, dimensions |-> dimensions]

\* ---------------------------------------------------------- the event loop
\* A handler that awaits between tokenizing and the forward pass (or runs the
\* model in a thread pool) gives the loop up there.
LoopAfterAwait(r, st) == IF st \in {"returned", "tokenized"} THEN NoTask ELSE r

\* The task that holds the event loop once request r's handler has reached
\* stage st.  The handlers are coroutines without an await: a started handler
\* keeps the loop until it returns.
LoopAfter(r, st) == IF st = "returned" THEN NoTask ELSE r

\* A task is resumed only when no other task holds the loop.
Runnable(r) == loop = r \/ (loop = NoTask /\ req[r].st \in InHandler)

\* ------------------------------------------------------------------ Init
InitService(S) == /\ service \in S
                  /\ model_id = ModelId(service)
                  /\ model = NoneModel
                  /\ tokenizer = NoneTokenizer
                  /\ lifespan_pc = 0
                  /\ loop = NoTask
                  /\ req = [r \in Requests |-> IdleFrame]
                  /\ health = [status |-> "", model |-> "", loaded |-> FALSE]

\* The script frame and the pooling frame when this process runs neither.
NoBi == [pc |-> "idle", queries |-> <<>>, documents |-> <<>>, instruction |-> [given |-> FALSE, text |-> ""], onEmpty |-> "raises", texts |-> <<>>, i |-> 0, tokCalls |-> 0, moved |-> 0, encoded |-> NoFeatures, exc |-> ""]

NoMp == [pc |-> "idle", token_embeddings |-> NoTensor, attention_mask |-> <<>>, pooled |-> NoTensor, first |-> NoTensor, pads |-> 0]

Init == InitService(Services) /\ bi = NoBi /\ mp = NoMp

\* -------------------------------------------------------------- lifespan
Loaded == model.loaded /\ tokenizer.loaded

Yielded == lifespan_pc = Len(LoadOps(service)) + 1

Exited == lifespan_pc = Len(LoadOps(service)) + 2

\* The lifecycle state of the spec's Model Host, read off the lifespan coroutine.
Phase == CASE lifespan_pc = 0 -> "uninitialized" [] Yielded -> "ready" [] Exited -> "shut down" [] OTHER -> "loading"

\* One statement of the load: lifespan runs on the event loop and does not
\* await before its yield, so it holds the loop from its first statement on.
LoadStep == /\ lifespan_pc < Len(LoadOps(service))
            /\ loop = IF lifespan_pc = 0 THEN NoTask ELSE LifespanTask
            /\ LET op == LoadOps(service)[lifespan_pc + 1]
               IN  /\ model' = CASE op = "model" -> [loaded |-> TRUE, id |-> model_id, quantized |-> FALSE, eval |-> FALSE] [] op = "quantize" -> [model EXCEPT !.quantized = TRUE] [] op = "eval" -> [model EXCEPT !.eval = TRUE] [] OTHER -> model
                   /\ \E e \in OnEmpty : tokenizer' = IF op = "tokenizer" THEN [loaded |-> TRUE, id |-> model_id, onEmpty |-> e] ELSE tokenizer
            /\ lifespan_pc' = lifespan_pc + 1
            /\ loop' = LifespanTask
            /\ UNCHANGED <<service, model_id, req, health, bi, mp>>

\* lifespan's yield: the application starts serving.
LifespanYield == /\ lifespan_pc = Len(LoadOps(service))
                 /\ loop = LifespanTask
                 /\ lifespan_pc' = lifespan_pc + 1
                 /\ loop' = NoTask
                 /\ UNCHANGED <<service, model_id, model, tokenizer, req, health, bi, mp>>

\* After the yield: print("Shutting down..."); the globals stay assigned.
LifespanExit == /\ Yielded
                /\ loop = NoTask
                /\ lifespan_pc' = lifespan_pc + 1
                /\ UNCHANGED <<service, model_id, model, tokenizer, loop, req, health, bi, mp>>

\* ---------------------------------------------------------------- health
\* The handlers are plain coroutines of the application object: nothing in
\* them depends on the lifespan having run, so a handler may start in any
\* lifecycle state in which no task holds the event loop.
\* health_check(): returns the same body whatever the globals hold.
HealthStatus(m, t) == "healthy"

HealthCheck == /\ loop = NoTask
               /\ health' = [status |-> HealthStatus(model, tokenizer), model |-> model_id, loaded |-> Loaded]
               /\ UNCHANGED <<service, model_id, model, tokenizer, lifespan_pc, loop, req, bi, mp>>

\* ---------------------------------------------------------------- rerank
\* The request bodies the transport hands to the handlers.
RerankInputs == {[query |-> q, documents |-> d, texts |-> <<>>] : q \in Queries, d \in SeqsUpTo(Texts, MaxDocs)}

EmbedInputs == {[query |-> <<>>, documents |-> <<>>, texts |-> t] : t \in SeqsUpTo(Texts, MaxDocs)}

\* A request reaches the application: its handler task is created and waits
\* for the event loop.
Arrive(r) == /\ req[r].st = "idle"
             /\ req' = [req EXCEPT ![r] = [IdleFrame EXCEPT !.st = "queued", !.route = IF service = "reranker" THEN "rerank" ELSE "embed"]]
             /\ UNCHANGED <<service, model_id, model, tokenizer, lifespan_pc, loop, health, bi, mp>>

\* rerank, line 66: queries = [request.query] * len(request.documents)
PairQueries(query, documents) == [i \in 1..Len(documents) |-> query]

RerankStart(r) == /\ req[r].st = "queued" /\ req[r].route = "rerank"
                  /\ loop = NoTask
                  /\ \E i \in RerankInputs : req' = [req EXCEPT ![r].st = "started", ![r].input = i, ![r].queries = PairQueries(i.query, i.documents), ![r].phase = Phase]
                  /\ loop' = LoopAfter(r, "started")
                  /\ UNCHANGED <<service, model_id, model, tokenizer, lifespan_pc, health, bi, mp>>

\* The outcome of calling the global tokenizer on a batch of n rows.
TokenizerOutcome(n) == IF ~tokenizer.loaded THEN "TypeError" ELSE IF n = 0 /\ tokenizer.onEmpty = "raises" THEN "IndexError" ELSE "ok"

\* rerank, lines 69-76.
RerankTokenize(r) == /\ req[r].st = "started" /\ req[r].route = "rerank"
                     /\ Runnable(r)
                     /\ LET o == TokenizerOutcome(Len(req[r].queries))
                        IN  IF o = "ok"
                            THEN /\ req' = [req EXCEPT ![r].st = "tokenized", ![r].tokCalls = @ + 1, ![r].features = TokenizePairs(req[r].queries, req[r].input.documents)]
                                 /\ loop' = LoopAfter(r, "tokenized")
                            ELSE /\ req' = [req EXCEPT ![r].st = "done", ![r].tokCalls = @ + (IF tokenizer.loaded THEN 1 ELSE 0), ![r].resp = Error(o)]
                                 /\ loop' = LoopAfter(r, "done")
                     /\ UNCHANGED <<service, model_id, model, tokenizer, lifespan_pc, health, bi, mp>>

\* A handler that loads the model again on every request.
RerankForwardReload(r) == /\ req[r].st = "tokenized" /\ req[r].route = "rerank"
                          /\ Runnable(r)
                          /\ model' = [loaded |-> TRUE, id |-> model_id, quantized |-> FALSE, eval |-> FALSE]
                          /\ req' = [req EXCEPT ![r].st = "forward", ![r].fwdCalls = @ + 1]
                          /\ loop' = LoopAfter(r, "forward")
                          /\ UNCHANGED <<service, model_id, tokenizer, lifespan_pc, health, bi, mp>>

\* rerank, line 80: the forward pass is entered.
RerankForward(r) == /\ req[r].st = "tokenized" /\ req[r].route = "rerank"
                    /\ Runnable(r)
                    /\ IF model.loaded
                       THEN /\ req' = [req EXCEPT ![r].st = "forward", ![r].fwdCalls = @ + 1]
                            /\ loop' = LoopAfter(r, "forward")
                       ELSE /\ req' = [req EXCEPT ![r].st = "done", ![r].resp = Error("TypeError")]
                            /\ loop' = LoopAfter(r, "done")
                    /\ UNCHANGED <<service, model_id, model, tokenizer, lifespan_pc, health, bi, mp>>

\* rerank, lines 80-81: the forward pass returns; sigmoid, squeeze, tolist.
RerankScore(r) == /\ req[r].st = "forward" /\ req[r].route = "rerank"
                  /\ Runnable(r)
                  /\ LET logits == ClassifierLogits(req[r].features)
                     IN  req' = [req EXCEPT ![r].st = "scored", ![r].out = logits, ![r].scores = ScoresOf(logits)]
                  /\ loop' = LoopAfter(r, "scored")
                  /\ UNCHANGED <<service, model_id, model, tokenizer, lifespan_pc, health, bi, mp>>

\* rerank, lines 84-87.
RerankRespond(r) == /\ req[r].st = "scored" /\ req[r].route = "rerank"
                    /\ Runnable(r)
                    /\ req' = [req EXCEPT ![r].st = "done", ![r].resp = RerankResponse(WrapSingle(req[r].scores))]
                    /\ loop' = LoopAfter(r, "done")
                    /\ UNCHANGED <<service, model_id, model, tokenizer, lifespan_pc, health, bi, mp>>

\* ----------------------------------------------------------------- embed
EmbedStart(r) == /\ req[r].st = "queued" /\ req[r].route = "embed"
                 /\ loop = NoTask
                 /\ \E i \in EmbedInputs : req' = [req EXCEPT ![r].st = "started", ![r].input = i, ![r].phase = Phase]
                 /\ loop' = LoopAfter(r, "started")
                 /\ UNCHANGED <<service, model_id, model, tokenizer, lifespan_pc, health, bi, mp>>

\* embed, lines 65-71.
EmbedTokenize(r) == /\ req[r].st = "started" /\ req[r].route = "embed"
                    /\ Runnable(r)
                    /\ LET o == TokenizerOutcome(Len(req[r].input.texts))
                       IN  IF o = "ok"
                           THEN /\ req' = [req EXCEPT ![r].st = "tokenized", ![r].tokCalls = @ + 1, ![r].features = TokenizeTexts(req[r].input.texts)]
                                /\ loop' = LoopAfter(r, "tokenized")
                           ELSE /\ req' = [req EXCEPT ![r].st = "done", ![r].tokCalls = @ + (IF tokenizer.loaded THEN 1 ELSE 0), ![r].resp = Error(o)]
                                /\ loop' = LoopAfter(r, "done")
                    /\ UNCHANGED <<service, model_id, model, tokenizer, lifespan_pc, health, bi, mp>>

\* embed, line 75: the forward pass is entered.
EmbedForward(r) == /\ req[r].st = "tokenized" /\ req[r].route = "embed"
                   /\ Runnable(r)
                   /\ IF model.loaded
                      THEN /\ req' = [req EXCEPT ![r].st = "forward", ![r].fwdCalls = @ + 1]
                           /\ loop' = LoopAfter(r, "forward")
                      ELSE /\ req' = [req EXCEPT ![r].st = "done", ![r].resp = Error("TypeError")]
                           /\ loop' = LoopAfter(r, "done")
                   /\ UNCHANGED <<service, model_id, model, tokenizer, lifespan_pc, health, bi, mp>>

\* embed, lines 75-78: the forward pass returns; pooling and normalization.
EmbedPool(r) == /\ req[r].st = "forward" /\ req[r].route = "embed"
                /\ Runnable(r)
                /\ LET model_output == EncoderOutput(req[r].features)
                   IN  req' = [req EXCEPT ![r].st = "scored", ![r].out = Normalize(mean_pooling(model_output, req[r].features.attention_mask))]
                /\ loop' = LoopAfter(r, "scored")
                /\ UNCHANGED <<service, model_id, model, tokenizer, lifespan_pc, health, bi, mp>>

\* embed, lines 80-83.
EmbedRespond(r) == /\ req[r].st = "scored" /\ req[r].route = "embed"
                   /\ Runnable(r)
                   /\ req' = [req EXCEPT ![r].st = "done", ![r].resp = EmbedResponse(req[r].out)]
                   /\ loop' = LoopAfter(r, "done")
                   /\ UNCHANGED <<service, model_id, model, tokenizer, lifespan_pc, health, bi, mp>>

\* The handler returns (or its exception propagates): the frame is discarded
\* and the event loop is free again.
Return(r) == /\ req[r].st = "done"
             /\ Runnable(r)
             /\ req' = [req EXCEPT ![r] = IdleFrame]
             /\ loop' = LoopAfter(r, "returned")
             /\ UNCHANGED <<service, model_id, model, tokenizer, lifespan_pc, health, bi, mp>>

Next == \/ LoadStep
        \/ LifespanYield
        \/ LifespanExit
        \/ HealthCheck
        \/ \E r \in Requests : Arrive(r)
        \/ \E r \in Requests : RerankStart(r)
        \/ \E r \in Requests : RerankTokenize(r)
        \/ \E r \in Requests : RerankForward(r)
        \/ \E r \in Requests : RerankScore(r)
        \/ \E r \in Requests : RerankRespond(r)
        \/ \E r \in Requests : EmbedStart(r)
        \/ \E r \in Requests : EmbedTokenize(r)
        \/ \E r \in Requests : EmbedForward(r)
        \/ \E r \in Requests : EmbedPool(r)
        \/ \E r \in Requests : EmbedRespond(r)
        \/ \E r \in Requests : Return(r)

Spec == Init /\ [][Next]_vars

\* ------------------------------------------- reranker-qwen3.py: build_inputs
\* The script's prompt frame, lines 67-68.
prefix == "<|im_start|>system\nJudge whether the Document meets the requirements based on the Query and the Instruct provided. Note that the answer can only be \"yes\" or \"no\".<|im_end|>\n<|im_start|>user\n"

suffix == "<|im_end|>\n<|im_start|>assistant\n<think>\n\n</think>\n\n"

\* The script's task, line 72.
task == "Given a web search query, retrieve relevant passages that answer the query"

\* instruction=None, or an instruction string.
NoneInstruction == [given |-> FALSE, text |-> ""]

Instructions == {NoneInstruction, [given |-> TRUE, text |-> task], [given |-> TRUE, text |-> "Rank"]}

QwenQueries == {"What is the capital of China?", "Explain gravity"}

QwenDocuments == {"The capital of China is Beijing.", "a place of business or activity"}

\* format_instruction(instruction, query, doc), lines 10-14.
format_instruction(instruction, query, doc) ==
    LET instr == IF ~instruction.given THEN "Given a web search query, retrieve relevant passages that answer the query" ELSE instruction.text
    IN  "<Instruct>: " \o instr \o "\n<Query>: " \o query \o "\n<Document>: " \o doc

\* build_inputs without its length check.
SameLengthUnchecked(queries, documents) == TRUE

\* len(queries) == len(documents), the condition of the assert on line 21.
SameLength(queries, documents) == Len(queries) = Len(documents)

\* zip(queries, documents) stops at the shorter list.
ZipLen(queries, documents) == Min2(Len(queries), Len(documents))

\* The script's tokenizer (padding_side='left'), one token per character: a row
\* is its text cut to MAX_LENGTH tokens and padded on the left to the longest
\* row of the batch.
TokenizeLeft(texts) == LET kept == [i \in 1..Len(texts) |-> Min2(Len(texts[i]), MAX_LENGTH)]
                           n == MaxSeq(kept)
                       IN  [input_ids |-> [i \in 1..Len(texts) |-> [pad |-> n - kept[i], text |-> texts[i], kept |-> kept[i]]], attention_mask |-> [i \in 1..Len(texts) |-> [p \in 1..n |-> IF p <= n - kept[i] THEN 0 ELSE 1]]]

\* A call build_inputs(queries, documents, instruction) is made.
InitBi == /\ InitService({"reranker"})
          /\ mp = NoMp
          /\ \E q \in SeqsUpTo(QwenQueries, MaxPairs), d \in SeqsUpTo(QwenDocuments, MaxPairs), ins \in Instructions, e \in OnEmpty :
                bi = [NoBi EXCEPT !.pc = "assert", !.queries = q, !.documents = d, !.instruction = ins, !.onEmpty = e]

\* build_inputs, line 21.
BiAssert == /\ bi.pc = "assert"
            /\ bi' = IF SameLength(bi.queries, bi.documents) THEN [bi EXCEPT !.pc = "loop"] ELSE [bi EXCEPT !.pc = "raised", !.exc = "AssertionError"]
            /\ UNCHANGED <<svcVars, mp>>

\* build_inputs, lines 24-27: one iteration of the loop over zip(queries, documents).
BiRender == /\ bi.pc = "loop"
            /\ bi.i < ZipLen(bi.queries, bi.documents)
            /\ LET core == format_instruction(bi.instruction, bi.queries[bi.i + 1], bi.documents[bi.i + 1])
                   full_text == prefix \o core \o suffix
               IN  bi' = [bi EXCEPT !.i = @ + 1, !.texts = Append(@, full_text)]
            /\ UNCHANGED <<svcVars, mp>>

\* build_inputs, lines 30-36: the single tokenizer call.
BiTokenize == /\ bi.pc = "loop"
              /\ bi.i = ZipLen(bi.queries, bi.documents)
              /\ bi' = IF bi.texts = <<>> /\ bi.onEmpty = "raises"
                       THEN [bi EXCEPT !.pc = "raised", !.exc = "IndexError", !.tokCalls = @ + 1]
                       ELSE [bi EXCEPT !.pc = "encoded", !.tokCalls = @ + 1, !.encoded = TokenizeLeft(bi.texts)]
              /\ UNCHANGED <<svcVars, mp>>

\* build_inputs, lines 39-40: every tensor of the encoding is moved to the
\* model's device and the encoding is returned.
BiMove == /\ bi.pc = "encoded"
          /\ bi' = [bi EXCEPT !.pc = "returned", !.moved = Cardinality(DOMAIN bi.encoded)]
          /\ UNCHANGED <<svcVars, mp>>

NextBi == BiAssert \/ BiRender \/ BiTokenize \/ BiMove

SpecBi == InitBi /\ [][NextBi]_vars

\* ------------------------------------------------- mean_pooling on its own
\* The values of a hidden state's components.
PoolVals == {-1, 2}

PoolVectors == [1..HiddenSize -> {FracInt(v) : v \in PoolVals}]

\* A batch of one row of L token vectors whose first k positions are kept by
\* the attention mask (k = 0: a row of padding only).
InitMp == /\ InitService({"embedder"})
          /\ bi = NoBi
          /\ \E L \in 1..MaxSeqLen : \E k \in 0..L : \E row \in [1..L -> PoolVectors] :
              mp = [NoMp EXCEPT !.pc = "input", !.token_embeddings = [shape |-> <<1, L, HiddenSize>>, data |-> <<row>>], !.attention_mask = <<[p \in 1..L |-> IF p <= k THEN 1 ELSE 0]>>]

\* mean_pooling is called on the batch.
MpCall == /\ mp.pc = "input"
          /\ LET r == mean_pooling(<<mp.token_embeddings>>, mp.attention_mask)
             IN  mp' = [mp EXCEPT !.pc = "pooled", !.pooled = r, !.first = IF mp.pads = 0 THEN r ELSE @]
          /\ UNCHANGED <<svcVars, bi>>

\* The row is padded by one position, as in a batch with a longer row: the
\* mask is 0 there and the hidden state is whatever the encoder computes.
MpPad == /\ mp.pc = "pooled"
         /\ mp.pads < MaxPad
         /\ \E v \in PoolVectors :
               mp' = [mp EXCEPT !.pc = "input", !.pads = @ + 1, !.token_embeddings = [shape |-> <<1, @.shape[2] + 1, HiddenSize>>, data |-> <<Append(@.data[1], v)>>], !.attention_mask = <<Append(@[1], 0)>>]
         /\ UNCHANGED <<svcVars, bi>>

NextMp == MpCall \/ MpPad

SpecMp == InitMp /\ [][NextMp]_vars

\* ================================================================ claims
\* The score of one (query, document) pair scored on its own.
PairScore(q, d) == LET ids == EncodePair(q, d) IN Sigmoid(RowLogit(ids, [i \in 1..Len(ids) |-> 1]))

DoneOn(r, route) == req[r].st = "done" /\ req[r].route = route

\* C1: every rerank of N >= 0 documents, served with the model and tokenizer
\* loaded, answers with exactly N scores, scores[i] being the score of the pair
\* (query, documents[i]).
C1_ScoresInInputOrder ==
    \A r \in Requests : (DoneOn(r, "rerank") /\ Loaded) =>
        LET q == req[r].input.query
            docs == req[r].input.documents
            sc == req[r].resp.scores
        IN  /\ req[r].resp.kind = "ok"
            /\ Len(sc) = Len(docs)
            /\ \A i \in 1..Len(docs) : sc[i] = PairScore(q, docs[i])

\* C2: a rerank of zero documents answers with an empty scores sequence and
\* makes no forward call of the model.
C2_EmptyRerankSkipsModel ==
    \A r \in Requests : (DoneOn(r, "rerank") /\ Loaded /\ req[r].input.documents = <<>>) =>
        /\ req[r].resp.kind = "ok" /\ req[r].resp.scores = <<>>
        /\ req[r].fwdCalls = 0

\* C3: the readiness probe reports healthy exactly when the model and the
\* tokenizer are both assigned, and an unready status otherwise.
C3_HealthTracksLoad == health.status # "" => (health.status = "healthy" <=> health.loaded)

\* C4: an inference call made in a lifecycle state other than ready is rejected
\* with NotReadyError and reaches neither the tokenizer nor the model.
C4_RejectedUnlessReady ==
    \A r \in Requests : (req[r].st = "done" /\ req[r].phase # "ready") =>
        /\ req[r].resp.kind = "error" /\ req[r].resp.exc = "NotReadyError"
        /\ req[r].tokCalls = 0 /\ req[r].fwdCalls = 0

\* C5: an embed of zero texts answers {embeddings: [], dimensions: 0}, is not
\* an error, and calls neither the tokenizer nor the model.
C5_EmptyEmbedSkipsModel ==
    \A r \in Requests : (DoneOn(r, "embed") /\ Loaded /\ req[r].input.texts = <<>>) =>
        /\ req[r].resp.kind = "ok" /\ req[r].resp.embeddings = <<>> /\ req[r].resp.dimensions = 0
        /\ req[r].tokCalls = 0 /\ req[r].fwdCalls = 0

\* C6: a rerank of exactly one document, served with the model loaded, answers
\* with a list of one score, that document's: the squeezed output holds one
\* score, as a one-element list or as a float that is wrapped, and the response
\* never carries a bare float.
C6_SingleDocumentIsAList ==
    \A r \in Requests :
        /\ (req[r].st = "scored" /\ req[r].route = "rerank" /\ Len(req[r].input.documents) = 1) => (req[r].scores.kind \in {"list", "float"} /\ Len(req[r].scores.v) = 1)
        /\ (DoneOn(r, "rerank") /\ Loaded /\ Len(req[r].input.documents) = 1) =>
              /\ req[r].resp.kind = "ok"
              /\ Len(req[r].resp.scores) = 1
              /\ req[r].resp.scores[1] = PairScore(req[r].input.query, req[r].input.documents[1])

\* C6 witness: a rerank of one document has answered.
C6_Witness ==
    \E r \in Requests : DoneOn(r, "rerank") /\ req[r].resp.kind = "ok" /\ Len(req[r].input.documents) = 1 /\ Len(req[r].resp.scores) = 1

AtMostOneForward == Cardinality({r \in Requests : req[r].st = "forward"}) <= 1

\* While a handler is between its first statement and its return, the only
\* thing that happens to another request is that it arrives.
RunsToCompletion ==
    \A r \in Requests : req[r].st \in InHandler =>
        \A o \in Requests \ {r} : \/ req'[o] = req[o]
                                  \/ req[o].st = "idle" /\ req'[o].st = "queued"

\* C7: under every interleaving of concurrently arriving requests at most one
\* forward pass is in progress, and a started handler runs to its return before
\* any other handler takes a step.
C7_OneInferenceAtATime == [](AtMostOneForward) /\ [][RunsToCompletion]_vars

\* C7 witness: one request is inside the forward pass while another has arrived
\* and waits.
C7_Witness == \E r, o \in Requests : r # o /\ req[r].st = "forward" /\ req[o].st = "queued"

\* C8: build_inputs with queries and documents of different lengths raises at
\* its length check: no prompt is rendered, the tokenizer is not called and no
\* tensor is moved to the device.
C8_MismatchRejectedFirst ==
    (bi.pc \notin {"idle", "assert"} /\ Len(bi.queries) # Len(bi.documents)) =>
        /\ bi.pc = "raised" /\ bi.exc = "AssertionError"
        /\ bi.texts = <<>> /\ bi.i = 0
        /\ bi.tokCalls = 0 /\ bi.moved = 0 /\ bi.encoded = NoFeatures

\* C8 witness: a call with one query and two documents (a pair that zip would
\* have rendered) has raised.
C8_Witness == bi.pc = "raised" /\ Len(bi.queries) = 1 /\ Len(bi.documents) = 2

LoadComplete == lifespan_pc >= Len(LoadOps(service))

FrameIsFresh(f) == [f EXCEPT !.st = "idle", !.route = ""] = IdleFrame

\* C9: once the load is complete the model, tokenizer and model identifier never
\* change; no step of a rerank, embed or health request changes them; and a
\* request that has not started holds nothing of an earlier request.
C9_HandleReadOnly ==
    /\ [][LoadComplete => UNCHANGED <<model, tokenizer, model_id>>]_vars
    /\ [][(req' # req \/ health' # health) => UNCHANGED <<model, tokenizer, model_id>>]_vars
    /\ [](\A r \in Requests : req[r].st \in {"idle", "queued"} => FrameIsFresh(req[r]))

\* C9 witness: after the load, with a health probe answered, a request has been
\* answered while another waits to start.
C9_Witness ==
    /\ Yielded /\ Loaded /\ health.status = "healthy"
    /\ \E r, o \in Requests : r # o /\ req[r].st = "done" /\ req[r].resp.kind = "ok" /\ req[o].st = "queued"

\* Component k of the sum of the token vectors of a row over those of its first
\* n positions whose mask value is 1.
RECURSIVE KeptSum(_, _, _, _)
KeptSum(row, mask, k, n) == IF n = 0 THEN FracInt(0) ELSE IF mask[n] = 1 THEN FracAdd(row[n][k], KeptSum(row, mask, k, n - 1)) ELSE KeptSum(row, mask, k, n - 1)

\* Component k of the mean of the token vectors of a row over the positions
\* whose mask value is 1 (zero when there is none).
MaskedMean(row, mask, k) ==
    LET kept == {p \in 1..Len(row) : mask[p] = 1}
    IN  IF kept = {} THEN FracInt(0) ELSE FracDiv(KeptSum(row, mask, k, Len(row)), FracInt(Cardinality(kept)))

\* C10: the pooled vector of a row is the mean of its token vectors over the
\* positions the mask keeps (zero for a row of padding only), and it is the same
\* after padding positions holding arbitrary vectors are appended to the row.
C10_PoolingIgnoresPadding ==
    mp.pc = "pooled" =>
        /\ \A k \in 1..HiddenSize : mp.pooled.data[1][k] = MaskedMean(mp.token_embeddings.data[1], mp.attention_mask[1], k)
        /\ mp.pooled = mp.first

\* C10 witness: a row with kept positions and a non-zero mean has been pooled
\* again after padding was appended.
C10_Witness ==
    /\ mp.pc = "pooled" /\ mp.pads >= 1
    /\ \E p \in 1..Len(mp.attention_mask[1]) : mp.attention_mask[1][p] = 1
    /\ \E k \in 1..HiddenSize : mp.pooled.data[1][k].num # 0

====
